---- MODULE Spec2Model ----
(***************************************************************************)
(* KOMPAS service (src/pdf_service/main.py): the two request handlers      *)
(*   get_colleague_support  POST /api/colleague-support                    *)
(*   render_pdf_batch       POST /api/pdf/render                           *)
(* Each handler is a state machine over its locals; the external store and *)
(* the HTML-to-PDF renderer are collaborators whose answers (rows, row     *)
(* order, failures) are chosen nondeterministically.                       *)
(*                                                                         *)
(* Python's None is the empty tuple <<>> and a present value v is <<v>>.   *)
(* File names and titles are sequences of one-character strings.           *)
(***************************************************************************)
EXTENDS Integers, Sequences, FiniteSets, TLC

\* ------------------------------------------------------------------------
\* Bounds of the model
\* ------------------------------------------------------------------------
\* longest competencies list of a request
MaxComps == 3
\* most rows of a project's score table
MaxRows == 4
\* longest title of a render request
MaxNameLen == 2
\* most items of a render request, besides the two oversized requests
MaxItems == 2
\* number of times the client sends the same request (SpecRepeat)
MaxCalls == 2

\* ------------------------------------------------------------------------
\* Values
\* ------------------------------------------------------------------------
Absent == <<>>

Present(v) == <<v>>

\* person ids found in score rows; "" is a string like any other
Tids == {"", "p1"}

\* competency (category) ids
Cids == {"c1", "c2"}

\* the universe of SpecPriority: three categories, two ordinary person ids
\* (SpecRepeat takes the same person ids)
PriorityTids == {"p1", "p2"}

PriorityCids == {"c1", "c2", "c3"}

PriorityScores == {Present(1), Present(2)}

\* safe_avg of a score row: null or a number
Scores == {Absent, Present(1), Present(2)}

FullNames == {"Ann", "Bo"}

\* v_kompas_series.category_name of a category
CategoryName(cid) == CASE cid = "c1" -> "Ledelse" [] cid = "c2" -> "Samarbejde" [] OTHER -> "Faglighed"

\* Python's str order on the display names that occur: "(" < "A" < "B"
NameKey(n) == CASE n = "(ukendt)" -> 0 [] n = "Ann" -> 1 [] n = "Bo" -> 2

Min(S) == CHOOSE x \in S : \A y \in S : x <= y

\* every arrangement of the finite set S as a sequence without repeats
RECURSIVE Orderings(_)
Orderings(S) ==
    IF S = {} THEN {<<>>}
    ELSE UNION {{<<x>> \o p : p \in Orderings(S \ {x})} : x \in S}

\* sequences over S of length at most n
SeqsUpTo(S, n) == UNION {[1..k -> S] : k \in 0..n}

\* ------------------------------------------------------------------------
\* State
\* ------------------------------------------------------------------------
VARIABLES
    creds,        \* SUPABASE_URL and SUPABASE_SERVICE_KEY are both set
    storePeople,  \* project_people of the project: a function id -> full_name
    storeScores,  \* v_kompas_series of the project: a set of rows
    data,         \* the ColleagueSupportRequest
    pc,           \* position of get_colleague_support
    name_by_id, cand, used, out, idx,
    picks,        \* per processed competency, the candidate picked (or Absent)
    err,          \* the exception caught at line 117 ("" when none)
    resp,         \* the HTTP response (Absent while running)
    calls, prev,  \* the client's repeated calls and the previous response
    req,          \* the PdfRenderRequest
    ppc,          \* position of render_pdf_batch
    zf,           \* entries written to the archive so far
    nth,          \* items of the separate loop already rendered
    rendered,     \* documents handed to the renderer, in order
    exc,          \* the exception raised inside the try block (Absent when none)
    presp         \* the HTTP response (Absent while running)

mvars == <<creds, storePeople, storeScores, data, pc, name_by_id, cand, used, out, idx, picks, err, resp, calls, prev>>

pvars == <<req, ppc, zf, nth, rendered, exc, presp>>

vars == <<mvars, pvars>>

\* ------------------------------------------------------------------------
\* get_colleague_support: helpers
\* ------------------------------------------------------------------------
\* line 86: the row filter. `not data.target_id` holds for None and for ""
KeepRow(r, target_id) ==
    /\ r.safe_avg # Absent
    /\ \/ target_id = Absent
       \/ target_id[1] = ""
       \/ r.target_id # target_id[1]

FilterRows(rows, target_id) == SelectSeq(rows, LAMBDA r : KeepRow(r, target_id))

\* lines 92-97: the candidate made from a row
Candidate(r, names) ==
    [tid |-> r.target_id,
     name |-> IF r.target_id \in DOMAIN names THEN names[r.target_id] ELSE "(ukendt)",
     score |-> r.safe_avg[1],
     comp_name |-> r.category_name]

RECURSIVE MapCandidates(_, _)
MapCandidates(rows, names) ==
    IF rows = <<>> THEN <<>>
    ELSE <<Candidate(Head(rows), names)>> \o MapCandidates(Tail(rows), names)

\* lines 90-97: cand, comp_id -> candidates in row order
GroupRows(rows, names) ==
    [c \in {rows[i].category_id : i \in DOMAIN rows} |->
        MapCandidates(SelectSeq(rows, LAMBDA r : r.category_id = c), names)]

\* a sort on (score, name): ascending score
KeyLessAscending(a, b) ==
    \/ a.score < b.score
    \/ a.score = b.score /\ NameKey(a.name) < NameKey(b.name)

\* line 99: the sort key (-score, name), a before b
KeyLess(a, b) ==
    \/ a.score > b.score
    \/ a.score = b.score /\ NameKey(a.name) < NameKey(b.name)

\* list.sort is stable: x goes behind every element that is not after it
RECURSIVE InsertSorted(_, _)
InsertSorted(x, s) ==
    IF s = <<>> THEN <<x>>
    ELSE IF KeyLess(x, Head(s)) THEN <<x>> \o s
    ELSE <<Head(s)>> \o InsertSorted(x, Tail(s))

RECURSIVE SortCandidates(_)
SortCandidates(s) ==
    IF s = <<>> THEN <<>>
    ELSE InsertSorted(s[Len(s)], SortCandidates(SubSeq(s, 1, Len(s) - 1)))

\* lines 98-99
SortAll(c) == [cid \in DOMAIN c |-> SortCandidates(c[cid])]

\* line 106: cand.get(cid, [])
CandGet(c, cid) == IF cid \in DOMAIN c THEN c[cid] ELSE <<>>

\* a scan that forgets the `used` test
FirstCandidate(lst, u) == IF lst = <<>> THEN Absent ELSE Present(lst[1])

\* a scan that keeps the last free candidate
LastUnused(lst, u) ==
    LET free == {i \in DOMAIN lst : lst[i].tid \notin u}
    IN  IF free = {} THEN Absent ELSE Present(lst[CHOOSE i \in free : \A j \in free : j <= i])

\* line 107: next((c for c in lst if c["tid"] not in used), None)
FirstUnused(lst, u) ==
    LET free == {i \in DOMAIN lst : lst[i].tid \notin u}
    IN  IF free = {} THEN Absent ELSE Present(lst[Min(free)])

\* lines 110-113
Entry(pick) == [full_name |-> pick.name, competency |-> pick.comp_name]

\* an except clause that lets the error through
OnExceptionPropagates == [status |-> 500, body |-> <<>>]

\* lines 117-119: the except clause returns [] (a 200 response)
OnException == [status |-> 200, body |-> <<>>]

\* the store's answer to the score query: the rows of the requested
\* categories (lines 81-82), in an order the store chooses
ScoreAnswers == Orderings({r \in storeScores : \E i \in DOMAIN data.competencies : data.competencies[i] = r.category_id})

\* ------------------------------------------------------------------------
\* get_colleague_support: steps
\* ------------------------------------------------------------------------
Locals == <<name_by_id, cand, used, out, idx, picks>>

Store == <<creds, storePeople, storeScores, data, calls, prev>>

\* lines 63, 20-23: s = sb()
Sb ==
    /\ pc = "sb"
    /\ creds
    /\ pc' = "people"
    /\ UNCHANGED <<Store, Locals, err, resp>>
    /\ UNCHANGED pvars

\* line 22 raises, line 117 catches
SbFails ==
    /\ pc = "sb"
    /\ ~creds
    /\ pc' = "done"
    /\ err' = "credentials"
    /\ resp' = Present(OnException)
    /\ UNCHANGED <<Store, Locals>>
    /\ UNCHANGED pvars

\* lines 66-75
FetchPeople ==
    /\ pc = "people"
    /\ IF DOMAIN storePeople = {}
       THEN /\ pc' = "done"
            /\ resp' = Present([status |-> 200, body |-> <<>>])
            /\ UNCHANGED name_by_id
       ELSE /\ pc' = "rows"
            /\ name_by_id' = storePeople
            /\ UNCHANGED resp
    /\ UNCHANGED <<Store, cand, used, out, idx, picks, err>>
    /\ UNCHANGED pvars

\* the person query raises (network, malformed answer)
FetchPeopleFails ==
    /\ pc = "people"
    /\ pc' = "done"
    /\ err' = "person query"
    /\ resp' = Present(OnException)
    /\ UNCHANGED <<Store, Locals>>
    /\ UNCHANGED pvars

\* lines 78-99: fetch, filter, group, sort
Prepare ==
    /\ pc = "rows"
    /\ cand' \in {SortAll(GroupRows(FilterRows(rows, data.target_id), name_by_id)) : rows \in ScoreAnswers}
    /\ pc' = "loop"
    /\ UNCHANGED <<Store, name_by_id, used, out, idx, picks, err, resp>>
    /\ UNCHANGED pvars

\* the score query raises
FetchRowsFails ==
    /\ pc = "rows"
    /\ pc' = "done"
    /\ err' = "score query"
    /\ resp' = Present(OnException)
    /\ UNCHANGED <<Store, Locals>>
    /\ UNCHANGED pvars

\* a row without the expected fields or types raises in lines 86-99
MalformedRow ==
    /\ pc = "rows"
    /\ pc' = "done"
    /\ err' = "malformed row"
    /\ resp' = Present(OnException)
    /\ UNCHANGED <<Store, Locals>>
    /\ UNCHANGED pvars

\* lines 105-113: one iteration of the loop
AssignStep ==
    /\ pc = "loop"
    /\ idx < Len(data.competencies)
    /\ LET cid == data.competencies[idx + 1]
           pick == FirstUnused(CandGet(cand, cid), used)
       IN  /\ picks' = Append(picks, pick)
           /\ IF pick # Absent
              THEN /\ used' = used \cup {pick[1].tid}
                   /\ out' = Append(out, Entry(pick[1]))
              ELSE UNCHANGED <<used, out>>
    /\ idx' = idx + 1
    /\ UNCHANGED <<Store, name_by_id, cand, pc, err, resp>>
    /\ UNCHANGED pvars

\* line 115
Return ==
    /\ pc = "loop"
    /\ idx = Len(data.competencies)
    /\ pc' = "done"
    /\ resp' = Present([status |-> 200, body |-> out])
    /\ UNCHANGED <<Store, Locals, err>>
    /\ UNCHANGED pvars

\* the client sends the same request again; the store has not changed
Repeat ==
    /\ pc = "done"
    /\ calls < MaxCalls
    /\ calls' = calls + 1
    /\ prev' = Present([resp |-> resp[1], err |-> err])
    /\ pc' = "sb"
    /\ name_by_id' = <<>>
    /\ cand' = <<>>
    /\ used' = {}
    /\ out' = <<>>
    /\ idx' = 0
    /\ picks' = <<>>
    /\ err' = ""
    /\ resp' = Absent
    /\ UNCHANGED <<creds, storePeople, storeScores, data>>
    /\ UNCHANGED pvars

\* ------------------------------------------------------------------------
\* Initial states
\* ------------------------------------------------------------------------
\* a project's people: ids are unique
PeopleTables(tids) == UNION {[S -> FullNames] : S \in SUBSET tids}

ScoreRow(tid, cid, avg) == [target_id |-> tid, category_id |-> cid, category_name |-> CategoryName(cid), safe_avg |-> avg]

\* a project's scores: at most one row per person and category
ScoreTables(tids, cids, scores) ==
    {t \in {UNION {{ScoreRow(k[1], k[2], s) : s \in f[k]} : k \in tids \X cids}
             : f \in [tids \X cids -> {{}} \cup {{s} : s \in scores}]}
       : Cardinality(t) <= MaxRows}

Requests(cids, targets) ==
    {[competencies |-> cs, target_id |-> t] : cs \in SeqsUpTo(cids, MaxComps), t \in targets}

\* without credentials the store is never reached: its content is left empty
InitWith(requests, tables, scoreTables) ==
    /\ creds \in BOOLEAN
    /\ data \in requests
    /\ storePeople \in (IF creds THEN tables ELSE {<<>>})
    /\ storeScores \in (IF creds THEN scoreTables ELSE {{}})
    /\ pc = "sb"
    /\ name_by_id = <<>>
    /\ cand = <<>>
    /\ used = {}
    /\ out = <<>>
    /\ idx = 0
    /\ picks = <<>>
    /\ err = ""
    /\ resp = Absent
    /\ calls = 1
    /\ prev = Absent
    /\ req = Absent
    /\ ppc = "idle"
    /\ zf = <<>>
    /\ nth = 0
    /\ rendered = <<>>
    /\ exc = Absent
    /\ presp = Absent

InitMatch ==
    InitWith(Requests(Cids, {Absent} \cup {Present(t) : t \in Tids}),
             PeopleTables(Tids),
             ScoreTables(Tids, Cids, Scores))

\* the universe of SpecRepeat: requests without target_id, ordinary ids
InitRepeat ==
    InitWith(Requests(Cids, {Absent}),
             PeopleTables(PriorityTids),
             ScoreTables(PriorityTids, Cids, Scores))

InitPriority ==
    InitWith(Requests(PriorityCids, {Absent}),
             {[t \in PriorityTids |-> IF t = "p1" THEN "Ann" ELSE n] : n \in FullNames},
             ScoreTables(PriorityTids, PriorityCids, PriorityScores))

NextMatch ==
    \/ Sb
    \/ SbFails
    \/ FetchPeople
    \/ FetchPeopleFails
    \/ Prepare
    \/ FetchRowsFails
    \/ MalformedRow
    \/ AssignStep
    \/ Return

SpecMatch == InitMatch /\ [][NextMatch]_vars

SpecRepeat == InitRepeat /\ [][NextMatch \/ Repeat]_vars

SpecPriority == InitPriority /\ [][NextMatch]_vars

\* ------------------------------------------------------------------------
\* render_pdf_batch: values
\* ------------------------------------------------------------------------
\* line 163: the admission limit on len(req.items)
MaxBatch == 500

\* characters of the titles drawn: a kept one, a blank, a stripped one, a dot
Alphabet == {"A", " ", "?", "."}

\* "A B?.html"
ExampleName == <<"A", " ", "B", "?", ".", "h", "t", "m", "l">>

\* filenames of the items drawn: "", "???", "A B?.html", "A \t A"
FileNames == {<<>>, <<"?", "?", "?">>, ExampleName, <<"A", " ", "\t", "A">>}

Htmls == {"<p>a</p>", "<p>b</p>"}

Modes == {"combined", "separate", "zip"}

\* Python's \s on the characters that occur
Whitespace == {" ", "\t", "\n", "\r"}

\* [A-Za-z0-9_\-\.]
SafeChars ==
    {"A", "B", "C", "D", "E", "F", "G", "H", "I", "J", "K", "L", "M",
     "N", "O", "P", "Q", "R", "S", "T", "U", "V", "W", "X", "Y", "Z",
     "a", "b", "c", "d", "e", "f", "g", "h", "i", "j", "k", "l", "m",
     "n", "o", "p", "q", "r", "s", "t", "u", "v", "w", "x", "y", "z",
     "0", "1", "2", "3", "4", "5", "6", "7", "8", "9", "_", "-", "."}

Resultater == <<"r", "e", "s", "u", "l", "t", "a", "t", "e", "r">>

Profil == <<"p", "r", "o", "f", "i", "l">>

DotPdf == <<".", "p", "d", "f">>

DotZip == <<".", "z", "i", "p">>

\* ------------------------------------------------------------------------
\* render_pdf_batch: helpers
\* ------------------------------------------------------------------------
\* line 152: re.sub(r"\s+", "_", s): each run of whitespace becomes one "_"
RECURSIVE CollapseWhitespace(_)
CollapseWhitespace(s) ==
    IF s = <<>> THEN <<>>
    ELSE IF Head(s) \in Whitespace
         THEN IF Len(s) > 1 /\ s[2] \in Whitespace
              THEN CollapseWhitespace(Tail(s))
              ELSE <<"_">> \o CollapseWhitespace(Tail(s))
         ELSE <<Head(s)>> \o CollapseWhitespace(Tail(s))

\* line 153: re.sub(r"[^A-Za-z0-9_\-\.]", "", s)
StripUnsafe(s) == SelectSeq(s, LAMBDA c : c \in SafeChars)

\* a sanitizer that only strips
safeStripOnly(s) == StripUnsafe(s)

\* lines 150-154
safe(s) == StripUnsafe(CollapseWhitespace(s))

\* Python's `x or default` on a string: None and "" are both falsy
OrDefault(x, default) == IF x = <<>> THEN default ELSE x

\* lines 190, 213: safe(req.title or "resultater")
AttachmentStem(title) == safe(OrDefault(IF title = Absent THEN <<>> ELSE title[1], Resultater))

\* line 210: safe(it.filename or "profil") + ".pdf"
EntryName(it) == safe(OrDefault(it.filename, Profil)) \o DotPdf

\* lines 168-188: one section per item, in request order, in one A4 shell
Sections(items) == [i \in 1..Len(items) |-> [section |-> items[i].html]]

CombinedDocument(items) == [page |-> "A4", body |-> Sections(items)]

\* lines 199-208: the item's HTML alone in the same shell
ItemDocument(it) == [page |-> "A4", body |-> it.html]

\* HTML(string=doc).write_pdf(): the bytes stand for the document rendered
WritePdf(doc) == [pdf_of |-> doc]

HTTPException(status, detail) == [type |-> "HTTPException", status |-> status, detail |-> detail]

OtherException(what) == [type |-> "Exception", what |-> what]

ErrorResponse(status, detail) ==
    [status |-> status, detail |-> detail, media_type |-> "application/json",
     filename |-> <<>>, body |-> Absent]

\* an except clause that has lost its `except HTTPException: raise`
ExceptionResponseSwallows(e) == ErrorResponse(500, "PDF rendering failed")

\* lines 217-221
ExceptionResponse(e) ==
    IF e.type = "HTTPException" THEN ErrorResponse(e.status, e.detail)
    ELSE ErrorResponse(500, "PDF rendering failed")

\* ------------------------------------------------------------------------
\* render_pdf_batch: steps
\* ------------------------------------------------------------------------
\* lines 145-148: the imports succeed
Import ==
    /\ ppc = "import"
    /\ ppc' = "validate"
    /\ UNCHANGED <<req, zf, nth, rendered, exc, presp>>
    /\ UNCHANGED mvars

\* line 148: weasyprint (or a native library of it) cannot be loaded
ImportFails ==
    /\ ppc = "import"
    /\ exc' = Present(OtherException("import weasyprint"))
    /\ ppc' = "except"
    /\ UNCHANGED <<req, zf, nth, rendered, presp>>
    /\ UNCHANGED mvars

\* lines 156-164
Validate ==
    /\ ppc = "validate"
    /\ IF req.mode \notin {"combined", "separate"}
       THEN /\ exc' = Present(HTTPException(400, "mode must be 'combined' or 'separate'"))
            /\ ppc' = "except"
       ELSE IF req.items = <<>>
       THEN /\ exc' = Present(HTTPException(400, "items must be non-empty"))
            /\ ppc' = "except"
       ELSE IF Len(req.items) > MaxBatch
       THEN /\ exc' = Present(HTTPException(413, "Too many items in one request"))
            /\ ppc' = "except"
       ELSE /\ ppc' = req.mode
            /\ UNCHANGED exc
    /\ UNCHANGED <<req, zf, nth, rendered, presp>>
    /\ UNCHANGED mvars

\* lines 166-193
RenderCombined ==
    /\ ppc = "combined"
    /\ rendered' = Append(rendered, CombinedDocument(req.items))
    /\ presp' = Present([status |-> 200, detail |-> "", media_type |-> "application/pdf",
                         filename |-> AttachmentStem(req.title) \o DotPdf,
                         body |-> Present(WritePdf(CombinedDocument(req.items)))])
    /\ ppc' = "done"
    /\ UNCHANGED <<req, zf, nth, exc>>
    /\ UNCHANGED mvars

\* line 189 raises
RenderCombinedFails ==
    /\ ppc = "combined"
    /\ rendered' = Append(rendered, CombinedDocument(req.items))
    /\ exc' = Present(OtherException("write_pdf"))
    /\ ppc' = "except"
    /\ UNCHANGED <<req, zf, nth, presp>>
    /\ UNCHANGED mvars

\* lines 198-211: one iteration of the loop
RenderItem ==
    /\ ppc = "separate"
    /\ nth < Len(req.items)
    /\ LET it == req.items[nth + 1]
       IN  /\ rendered' = Append(rendered, ItemDocument(it))
           /\ zf' = Append(zf, [name |-> EntryName(it), data |-> WritePdf(ItemDocument(it))])
    /\ nth' = nth + 1
    /\ UNCHANGED <<req, ppc, exc, presp>>
    /\ UNCHANGED mvars

\* line 209 raises on the item
RenderItemFails ==
    /\ ppc = "separate"
    /\ nth < Len(req.items)
    /\ rendered' = Append(rendered, ItemDocument(req.items[nth + 1]))
    /\ exc' = Present(OtherException("write_pdf"))
    /\ ppc' = "except"
    /\ UNCHANGED <<req, zf, nth, presp>>
    /\ UNCHANGED mvars

\* lines 212-215
SendZip ==
    /\ ppc = "separate"
    /\ nth = Len(req.items)
    /\ presp' = Present([status |-> 200, detail |-> "", media_type |-> "application/zip",
                         filename |-> AttachmentStem(req.title) \o DotZip,
                         body |-> Present(zf)])
    /\ ppc' = "done"
    /\ UNCHANGED <<req, zf, nth, rendered, exc>>
    /\ UNCHANGED mvars

\* lines 217-221
Except ==
    /\ ppc = "except"
    /\ presp' = Present(ExceptionResponse(exc[1]))
    /\ ppc' = "done"
    /\ UNCHANGED <<req, zf, nth, rendered, exc>>
    /\ UNCHANGED mvars

\* ------------------------------------------------------------------------
\* render_pdf_batch: initial states
\* ------------------------------------------------------------------------
Items == [filename : FileNames, html : Htmls]

Titles == {Absent} \cup {Present(t) : t \in SeqsUpTo(Alphabet, MaxNameLen)}

\* every small request, and requests of MaxBatch and MaxBatch + 1 equal items
PdfRequests ==
    [mode : Modes, title : Titles, items : SeqsUpTo(Items, MaxItems)]
    \cup
    [mode : Modes, title : {Absent},
     items : {[i \in 1..n |-> [filename |-> ExampleName, html |-> "<p>a</p>"]] : n \in {MaxBatch, MaxBatch + 1}}]

InitPdf ==
    /\ req \in PdfRequests
    /\ ppc = "import"
    /\ zf = <<>>
    /\ nth = 0
    /\ rendered = <<>>
    /\ exc = Absent
    /\ presp = Absent
    /\ creds = FALSE
    /\ data = Absent
    /\ storePeople = <<>>
    /\ storeScores = {}
    /\ pc = "idle"
    /\ name_by_id = <<>>
    /\ cand = <<>>
    /\ used = {}
    /\ out = <<>>
    /\ idx = 0
    /\ picks = <<>>
    /\ err = ""
    /\ resp = Absent
    /\ calls = 1
    /\ prev = Absent

NextPdf ==
    \/ Import
    \/ ImportFails
    \/ Validate
    \/ RenderCombined
    \/ RenderCombinedFails
    \/ RenderItem
    \/ RenderItemFails
    \/ SendZip
    \/ Except

SpecPdf == InitPdf /\ [][NextPdf]_vars

\* ------------------------------------------------------------------------
\* Properties of get_colleague_support
\* ------------------------------------------------------------------------
\* positions of the request whose competency got a colleague
Chosen == {i \in DOMAIN picks : picks[i] # Absent}

PickedTid(i) == picks[i][1].tid

\* person ids assigned at the positions before i
UsedBefore(i) == {PickedTid(j) : j \in {k \in Chosen : k < i}}

RECURSIVE EntriesOf(_)
EntriesOf(ps) ==
    IF ps = <<>> THEN <<>>
    ELSE (IF Head(ps) = Absent THEN <<>>
          ELSE <<[full_name |-> Head(ps)[1].name, competency |-> Head(ps)[1].comp_name]>>)
         \o EntriesOf(Tail(ps))

Succeeded == err = "" /\ DOMAIN storePeople # {}

\* C1: the result is no longer than the competencies list, no two entries
\* come from the same person id, and at every step of the loop `used` holds
\* exactly the person ids of the entries appended so far, each once.
C1_DistinctPersons ==
    /\ Len(out) <= Len(data.competencies)
    /\ Len(out) = Cardinality(Chosen)
    /\ out = EntriesOf(picks)
    /\ \A i, j \in Chosen : i # j => PickedTid(i) # PickedTid(j)
    /\ used = {PickedTid(i) : i \in Chosen}
    /\ Cardinality(used) = Len(out)
    /\ \A i \in Chosen : \E r \in storeScores :
          r.target_id = PickedTid(i) /\ r.category_id = data.competencies[i]
    /\ resp # Absent => Len(resp[1].body) <= Len(data.competencies)

\* a request that repeats a competency id and gets a colleague for each
C1_Witness ==
    /\ pc = "done"
    /\ \E i, j \in Chosen : i < j /\ data.competencies[i] = data.competencies[j]
    /\ Len(resp[1].body) = 2

\* the rows line 86 keeps
Eligible(r) ==
    /\ r.safe_avg # Absent
    /\ data.target_id \in {Absent, Present("")} \/ r.target_id # data.target_id[1]

DisplayName(tid) == IF tid \in DOMAIN storePeople THEN storePeople[tid] ELSE "(ukendt)"

\* row q ranks strictly before row r: higher safe_avg, then smaller name
Outranks(q, r) ==
    \/ q.safe_avg[1] > r.safe_avg[1]
    \/ /\ q.safe_avg[1] = r.safe_avg[1]
       /\ NameKey(DisplayName(q.target_id)) < NameKey(DisplayName(r.target_id))

\* the eligible rows of position i's category whose person is still free
FreeRows(i) ==
    {r \in storeScores : /\ r.category_id = data.competencies[i]
                         /\ Eligible(r)
                         /\ r.target_id \notin UsedBefore(i)}

\* C2: when the store answers and there are people, the result is the
\* greedy assignment: in the caller's order, each competency gets a free
\* eligible candidate that no other free one outranks (higher safe_avg, then
\* smaller full_name), or nothing when none is free; the output keeps the
\* order and carries {full_name, category_name}.
C2_GreedyReference ==
    Succeeded =>
        /\ \A i \in DOMAIN picks :
              IF FreeRows(i) = {} THEN picks[i] = Absent
              ELSE /\ picks[i] # Absent
                   /\ \E r \in FreeRows(i) :
                         /\ picks[i][1] = [tid |-> r.target_id,
                                           name |-> DisplayName(r.target_id),
                                           score |-> r.safe_avg[1],
                                           comp_name |-> r.category_name]
                         /\ \A q \in FreeRows(i) : ~Outranks(q, r)
        /\ out = EntriesOf(picks)
        /\ pc = "done" =>
              /\ Len(picks) = Len(data.competencies)
              /\ resp = Present([status |-> 200, body |-> EntriesOf(picks)])

\* a lower-scored colleague is passed over, a better one is already used,
\* and one competency is left without a colleague
C2_Witness ==
    /\ pc = "done"
    /\ Succeeded
    /\ \E i \in DOMAIN picks : picks[i] = Absent
    /\ \E i \in Chosen : \E r \in storeScores :
          /\ r.category_id = data.competencies[i]
          /\ Eligible(r)
          /\ r.safe_avg[1] > picks[i][1].score
    /\ \E i \in Chosen : \E r \in FreeRows(i) :
          /\ r.target_id # PickedTid(i)
          /\ r.safe_avg[1] = picks[i][1].score

HasTop(cid) == CandGet(cand, cid) # <<>>

TopTid(cid) == CandGet(cand, cid)[1].tid

FirstOccurrence(i) == \A k \in 1..(i - 1) : data.competencies[k] # data.competencies[i]

\* the candidate position j receives: the first of its list not assigned before
NextBest(j) ==
    LET lst == CandGet(cand, data.competencies[j])
        free == {k \in DOMAIN lst : lst[k].tid \notin UsedBefore(j)}
    IN  IF free = {} THEN Absent ELSE Present(lst[Min(free)])

\* C3 as stated: if P tops both c1 and c2 and c1 precedes c2 in the request,
\* whatever stands before or between them, P is assigned to c1. (Taken for
\* two different competencies at their first occurrences.)
C3_PriorityAsStated ==
    (pc = "done" /\ Succeeded) =>
        \A i, j \in DOMAIN data.competencies :
            (/\ i < j
             /\ FirstOccurrence(i)
             /\ FirstOccurrence(j)
             /\ HasTop(data.competencies[i])
             /\ HasTop(data.competencies[j])
             /\ TopTid(data.competencies[i]) = TopTid(data.competencies[j]))
            => (i \in Chosen /\ PickedTid(i) = TopTid(data.competencies[i]))

\* C3 amended: if P tops both c1 and c2, c1 precedes c2, and P was not
\* assigned to a competency before c1, then P is assigned to c1, and c2
\* receives its next-best candidate not yet used, or nothing.
C3_Priority ==
    Succeeded =>
        \A i, j \in DOMAIN picks :
            (/\ i < j
             /\ HasTop(data.competencies[i])
             /\ HasTop(data.competencies[j])
             /\ TopTid(data.competencies[i]) = TopTid(data.competencies[j])
             /\ TopTid(data.competencies[i]) \notin UsedBefore(i))
            => /\ i \in Chosen
               /\ PickedTid(i) = TopTid(data.competencies[i])
               /\ j \in Chosen => PickedTid(j) # TopTid(data.competencies[i])
               /\ picks[j] = NextBest(j)

\* P tops two different competencies, is assigned to the earlier one, and
\* the later one receives somebody else; another competency stands between
C3_Witness ==
    /\ pc = "done"
    /\ Succeeded
    /\ \E i, j \in Chosen :
          /\ i + 1 < j
          /\ data.competencies[i] # data.competencies[j]
          /\ TopTid(data.competencies[i]) = TopTid(data.competencies[j])
          /\ PickedTid(i) = TopTid(data.competencies[i])
          /\ PickedTid(j) # PickedTid(i)

\* C4: with target_id = T in the request (any string, "" included), no
\* result entry was produced from a score row of person T.
C4_SelfExclusion ==
    data.target_id # Absent => \A i \in Chosen : PickedTid(i) # data.target_id[1]

\* C5: two calls with the same request against the same store contents give
\* the same list, whatever order the store returns the rows in.
C5_Determinism ==
    (pc = "done" /\ prev # Absent /\ err = "" /\ prev[1].err = "")
        => resp[1] = prev[1].resp

\* C6: whatever step fails, the handler answers 200 with the empty list;
\* it never answers with an error and never with a partly built list.
C6_FailOpen ==
    /\ resp # Absent => resp[1].status = 200
    /\ err # "" => /\ pc = "done"
                   /\ resp = Present([status |-> 200, body |-> <<>>])
    /\ pc = "done" => resp # Absent

\* the score query failed after the people were fetched
C6_Witness ==
    /\ pc = "done"
    /\ err \in {"score query", "malformed row"}
    /\ DOMAIN name_by_id # {}
    /\ resp[1].body = <<>>

\* ------------------------------------------------------------------------
\* Properties of render_pdf_batch
\* ------------------------------------------------------------------------
Answered == ppc = "done"

Status == presp[1].status

ValidMode == req.mode \in {"combined", "separate"}

\* C7: validation decides the outcome before anything else can: a wrong
\* mode gives 400, empty items give 400, more than 500 items give 413, never
\* a 500 from loading or running the renderer, and the renderer is not
\* invoked; exactly 500 items pass validation. (The item checks are taken
\* for requests whose mode is valid, the order the checks run in.)
C7_ValidationFirst ==
    Answered =>
        /\ ~ValidMode => Status = 400 /\ rendered = <<>>
        /\ (ValidMode /\ req.items = <<>>) => Status = 400 /\ rendered = <<>>
        /\ (ValidMode /\ Len(req.items) > MaxBatch) => Status = 413 /\ rendered = <<>>
        /\ (ValidMode /\ Len(req.items) = MaxBatch) => Status \notin {400, 413}

\* C8: a failure of the renderer on any item gives the 500 'PDF rendering
\* failed' with no PDF and no ZIP body, whatever was already written to the
\* archive; a 4xx raised by validation is passed through unchanged; a 200
\* is sent only when everything was rendered.
C8_RenderFailure ==
    /\ ppc = "except" => presp = Absent /\ exc # Absent
    /\ (Answered /\ exc # Absent) =>
          IF exc[1].type = "HTTPException"
          THEN /\ Status \in {400, 413}
               /\ Status = exc[1].status
               /\ presp[1].detail = exc[1].detail
               /\ presp[1].body = Absent
          ELSE presp = Present([status |-> 500, detail |-> "PDF rendering failed",
                                media_type |-> "application/json",
                                filename |-> <<>>, body |-> Absent])
    /\ (Answered /\ exc = Absent) =>
          /\ Status = 200
          /\ Len(rendered) = (IF req.mode = "combined" THEN 1 ELSE Len(req.items))

\* the renderer failed on a later item, after earlier ones were archived
C8_Witness ==
    /\ Answered
    /\ req.mode = "separate"
    /\ Len(zf) >= 1
    /\ Len(zf) < Len(req.items)
    /\ Status = 500
    /\ presp[1].body = Absent

\* "A_B.pdf"
ExampleEntryAsStated == <<"A", "_", "B", ".", "p", "d", "f">>

\* the stem each drawn filename is expected to give
ExpectedStem(filename) ==
    CASE filename = <<>> -> <<"p", "r", "o", "f", "i", "l">>
      [] filename = <<"?", "?", "?">> -> <<>>
      [] filename = ExampleName -> <<"A", "_", "B", ".", "h", "t", "m", "l">>
      [] filename = <<"A", " ", "\t", "A">> -> <<"A", "_", "A">>

\* all items in one document, rendered once, sent as one PDF
CombinedAsExpected ==
    /\ Len(rendered) = 1
    /\ Len(rendered[1].body) = Len(req.items)
    /\ \A i \in DOMAIN req.items : rendered[1].body[i].section = req.items[i].html
    /\ presp[1].media_type = "application/pdf"
    /\ presp[1].body = Present([pdf_of |-> rendered[1]])

\* one archive entry per item, in request order, each the item's own PDF
ArchiveAsExpected ==
    /\ presp[1].media_type = "application/zip"
    /\ Len(presp[1].body[1]) = Len(req.items)
    /\ Len(rendered) = Len(req.items)
    /\ \A i \in DOMAIN req.items :
          /\ rendered[i].body = req.items[i].html
          /\ presp[1].body[1][i].data = [pdf_of |-> rendered[i]]

\* C9 as stated: n entries in request order, each named after the sanitized
\* filename followed by '.pdf', "A B?.html" giving "A_B.pdf"; combined mode
\* renders once, all HTML in order, and sends a single PDF.
C9_OutputsAsStated ==
    (Answered /\ Status = 200) =>
        IF req.mode = "combined" THEN CombinedAsExpected
        ELSE /\ ArchiveAsExpected
             /\ \A i \in DOMAIN req.items :
                   req.items[i].filename = ExampleName
                       => presp[1].body[1][i].name = ExampleEntryAsStated

\* C9 amended: the entry name is the sanitized filename (or 'profil' for an
\* empty filename) followed by '.pdf', the filename's own extension kept:
\* "A B?.html" gives "A_B.html.pdf".
C9_Outputs ==
    (Answered /\ Status = 200) =>
        IF req.mode = "combined" THEN CombinedAsExpected
        ELSE /\ ArchiveAsExpected
             /\ \A i \in DOMAIN req.items :
                   presp[1].body[1][i].name
                       = ExpectedStem(req.items[i].filename) \o <<".", "p", "d", "f">>

\* a ZIP of two entries, the second made from "A B?.html"
C9_Witness ==
    /\ Answered
    /\ Status = 200
    /\ req.mode = "separate"
    /\ Len(req.items) = 2
    /\ req.items[1].filename # ExampleName
    /\ req.items[2].filename = ExampleName
    /\ Len(presp[1].body[1]) = 2

\* C10: the attachment name and every archive entry name have a non-empty
\* stem before '.pdf' / '.zip': a name that sanitizes to nothing is replaced
\* by the default.
C10_NonEmptyStem ==
    (Answered /\ Status = 200) =>
        /\ presp[1].filename \notin {<<".", "p", "d", "f">>, <<".", "z", "i", "p">>}
        /\ req.mode = "separate" =>
              \A i \in DOMAIN presp[1].body[1] :
                  presp[1].body[1][i].name # <<".", "p", "d", "f">>

====
